---------------------------- MODULE Spec2Model ----------------------------
(***************************************************************************)
(* A model of the tree-walking Lox interpreter: the runtime values         *)
(* (src/value.rs), the expression evaluator and the statement executor     *)
(* (src/interpreter.rs), and the scope stack they run against.             *)
(***************************************************************************)
EXTENDS Integers, Sequences, FiniteSets, TLC

(***************************************************************************)
(* Bounds of the model.                                                    *)
(***************************************************************************)
\* Largest magnitude of a finite Number the model follows.
MaxNum == 3
\* Longest String the model follows.
MaxStrLen == 2
\* Most statements handed to one Interpreter, over all its calls of interpret.
MaxStmts == 3
\* Most calls of interpret on one Interpreter.
MaxCalls == 2
\* Most lines one call of interpret writes before the model stops following.
MaxOut == 3

(***************************************************************************)
(* LoxValue (value.rs:10-16).  A Number is an f64, kept as class, sign and *)
(* magnitude so that -0, the infinities and NaN are values of their own.   *)
(* Every value is a record with the same fields; the fields a variant does *)
(* not use hold the fixed fillers below.                                   *)
(***************************************************************************)
Number(c, neg, m) ==
  [t |-> "Number", c |-> c, neg |-> neg, m |-> m, s |-> "", b |-> FALSE]

String(s) ==
  [t |-> "String", c |-> "fin", neg |-> FALSE, m |-> 0, s |-> s, b |-> FALSE]

Boolean(b) ==
  [t |-> "Boolean", c |-> "fin", neg |-> FALSE, m |-> 0, s |-> "", b |-> b]

\* A Callable: its name and its arity (the body is never invoked here).
Function(name, arity) ==
  [t |-> "Function", c |-> "fin", neg |-> FALSE, m |-> arity, s |-> name, b |-> FALSE]

Nil ==
  [t |-> "Nil", c |-> "fin", neg |-> FALSE, m |-> 0, s |-> "", b |-> FALSE]

\* Shorthands for f64 values.
Fin(i) == IF i < 0 THEN Number("fin", TRUE, -i) ELSE Number("fin", FALSE, i)
NegZero == Number("fin", TRUE, 0)
Inf == Number("inf", FALSE, 0)
NegInf == Number("inf", TRUE, 0)
NaN == Number("nan", FALSE, 0)

\* is_truthy with zero and the empty string falsy as well.
is_truthy_zero_falsy(v) ==
  CASE v.t = "Nil" -> FALSE
    [] v.t = "Boolean" -> v.b
    [] v.t = "Number" -> ~(v.c = "fin" /\ v.m = 0)
    [] v.t = "String" -> v.s # ""
    [] OTHER -> TRUE

\* LoxValue::is_truthy
is_truthy(v) ==
  CASE v.t = "Nil" -> FALSE
    [] v.t = "Boolean" -> v.b
    [] OTHER -> TRUE

\* LoxValue::is_number
is_number(v) == v.t = "Number"

\* LoxValue::type_matches: the two discriminants are the same.
type_matches(a, b) == a.t = b.t

(***************************************************************************)
(* f64 arithmetic on class/sign/magnitude.  IsNaN, IsInf, IsZero classify; *)
(* a finite result is exact here, and a result the model does not follow   *)
(* (too large, or not an integer) is reported as the class "out".          *)
(***************************************************************************)
IsNaN(a) == a.c = "nan"
IsInf(a) == a.c = "inf"
IsZero(a) == a.c = "fin" /\ a.m = 0

\* The signed integer of a finite number (both zeros are 0).
IntOf(a) == IF a.neg THEN -a.m ELSE a.m

OutOfModel == Number("out", FALSE, 0)

\* A finite result i, where a zero result takes the sign negz.
FinOrOut(i, negz) ==
  IF i = 0 THEN Number("fin", negz, 0)
  ELSE IF i > MaxNum \/ i < -MaxNum THEN OutOfModel
  ELSE Fin(i)

\* f64 negation as the code computes it: -1.0 * n.
F64Neg(a) ==
  IF IsNaN(a) THEN NaN ELSE Number(a.c, ~a.neg, a.m)

\* f64 a + b.
F64Add(a, b) ==
  CASE IsNaN(a) \/ IsNaN(b) -> NaN
    [] IsInf(a) /\ IsInf(b) -> IF a.neg = b.neg THEN a ELSE NaN
    [] IsInf(a) -> a
    [] IsInf(b) -> b
    [] OTHER -> FinOrOut(IntOf(a) + IntOf(b),
                         IF IsZero(a) /\ IsZero(b) THEN a.neg /\ b.neg ELSE FALSE)

\* f64 a - b.
F64Sub(a, b) == F64Add(a, F64Neg(b))

\* f64 a * b.
F64Mul(a, b) ==
  CASE IsNaN(a) \/ IsNaN(b) -> NaN
    [] (IsInf(a) /\ IsZero(b)) \/ (IsZero(a) /\ IsInf(b)) -> NaN
    [] IsInf(a) \/ IsInf(b) -> Number("inf", a.neg # b.neg, 0)
    [] OTHER -> FinOrOut(IntOf(a) * IntOf(b), a.neg # b.neg)

\* f64 a / b: x/0 is an infinity, 0/0 and inf/inf are NaN.
F64Div(a, b) ==
  CASE IsNaN(a) \/ IsNaN(b) -> NaN
    [] IsInf(a) /\ IsInf(b) -> NaN
    [] IsInf(a) -> Number("inf", a.neg # b.neg, 0)
    [] IsInf(b) -> Number("fin", a.neg # b.neg, 0)
    [] IsZero(b) -> IF IsZero(a) THEN NaN ELSE Number("inf", a.neg # b.neg, 0)
    [] a.m % b.m = 0 -> FinOrOut(IF a.neg # b.neg THEN -(a.m \div b.m) ELSE a.m \div b.m,
                                 a.neg # b.neg)
    [] OTHER -> OutOfModel

\* f64 a == b: NaN equals nothing, the two zeros are equal.
F64Eq(a, b) ==
  CASE IsNaN(a) \/ IsNaN(b) -> FALSE
    [] IsInf(a) \/ IsInf(b) -> IsInf(a) /\ IsInf(b) /\ a.neg = b.neg
    [] OTHER -> IntOf(a) = IntOf(b)

\* f64 a < b: false when either is NaN.
F64Lt(a, b) ==
  CASE IsNaN(a) \/ IsNaN(b) -> FALSE
    [] IsInf(a) /\ IsInf(b) -> a.neg /\ ~b.neg
    [] IsInf(a) -> a.neg
    [] IsInf(b) -> ~b.neg
    [] OTHER -> IntOf(a) < IntOf(b)

F64Le(a, b) == F64Lt(a, b) \/ F64Eq(a, b)
F64Gt(a, b) == F64Lt(b, a)
F64Ge(a, b) == F64Lt(b, a) \/ F64Eq(a, b)

\* eq as a derived PartialEq would be: same variant, same contents.
eq_derived(a, b) ==
  CASE a.t = "Number" /\ b.t = "Number" -> F64Eq(a, b)
    [] OTHER -> a = b

(***************************************************************************)
(* impl PartialEq for LoxValue (value.rs:104-117).                         *)
(***************************************************************************)
eq(a, b) ==
  CASE a.t = "Number" /\ b.t = "Number" -> F64Eq(a, b)
    [] a.t = "String" /\ b.t = "String" -> a.s = b.s
    [] a.t = "Boolean" /\ b.t = "Boolean" -> a.b = b.b
    [] a.t = "Function" /\ b.t = "Function" -> FALSE
    [] a.t = "Nil" /\ b.t = "Nil" -> TRUE
    [] OTHER -> FALSE

(***************************************************************************)
(* Tokens, literals and expression nodes.  A token is its kind and its     *)
(* source line (Token::new(kind, line), bin/ast_printer.rs:8); an          *)
(* identifier token also carries the name it spells.                       *)
(***************************************************************************)
Token(kind, name, line) == [kind |-> kind, name |-> name, line |-> line]

\* The filler of a result that carries no token.
NoToken == Token("None", "", 0)

\* expr::Literal, as value.rs:69-78 matches it.
LitNumber(i) == [lit |-> "Number", v |-> Fin(i)]
LitString(s) == [lit |-> "String", v |-> String(s)]
LitBoolean(b) == [lit |-> "Boolean", v |-> Boolean(b)]
LitNil == [lit |-> "Nil", v |-> Nil]

\* impl From<Literal> for LoxValue: each literal kind to its variant.
FromLiteral(l) ==
  CASE l.lit = "Number" -> Number(l.v.c, l.v.neg, l.v.m)
    [] l.lit = "String" -> String(l.v.s)
    [] l.lit = "Boolean" -> Boolean(l.v.b)
    [] l.lit = "Nil" -> Nil

\* expr::Expr, as eval_expr matches it.
Literal(l) == [e |-> "Literal", val |-> l]
Grouping(x) == [e |-> "Grouping", inner |-> x]
Unary(op, right) == [e |-> "Unary", op |-> op, right |-> right]
Binary(left, op, right) == [e |-> "Binary", left |-> left, op |-> op, right |-> right]
Variable(token) == [e |-> "Variable", token |-> token]
Assign(token, x) == [e |-> "Assign", token |-> token, expr |-> x]
Logical(left, op, right) == [e |-> "Logical", left |-> left, op |-> op, right |-> right]

(***************************************************************************)
(* Results.  Result<LoxValue> after an evaluation, together with the       *)
(* environment the evaluation left behind: "ok" with a value, "err" with   *)
(* Error::Runtime(token, message), "panic" for panic!/unreachable!, and    *)
(* "out" for a value the model does not follow.                            *)
(***************************************************************************)
Res(st, val, env, tok, msg) ==
  [st |-> st, val |-> val, env |-> env, tok |-> tok, msg |-> msg]

Ok(val, env) == Res("ok", val, env, NoToken, "")
Runtime(tok, msg, env) == Res("err", Nil, env, tok, msg)
Panic(env) == Res("panic", Nil, env, NoToken, "")
Out(env) == Res("out", Nil, env, NoToken, "")

\* A Number result, or "out" when the f64 left the model's range.
OkNumber(n, env) == IF n.c = "out" THEN Out(env) ELSE Ok(n, env)

\* With the environment of a later moment.
WithEnv(r, env) == [r EXCEPT !.env = env]

(***************************************************************************)
(* Environment: the scope stack, innermost frame last.  A frame is a       *)
(* function from the names it binds to their values.                       *)
(***************************************************************************)
EmptyFrame == <<>>

\* Environment::new: the base frame alone.
EnvNew == <<EmptyFrame>>

\* The frames of env that bind name, as indices.
Binders(env, name) == {i \in 1..Len(env) : name \in DOMAIN env[i]}

\* The innermost frame that binds name (0 when none does).
Innermost(env, name) ==
  IF Binders(env, name) = {} THEN 0
  ELSE CHOOSE i \in Binders(env, name) : \A j \in Binders(env, name) : j <= i

\* Environment::define: insert or overwrite in the innermost frame.
define(env, name, value) ==
  [env EXCEPT ![Len(env)] =
     [n \in DOMAIN env[Len(env)] \cup {name} |->
        IF n = name THEN value ELSE env[Len(env)][n]]]

\* Environment::get: innermost first, else "undefined variable".
get(env, token) ==
  IF Innermost(env, token.name) = 0
  THEN Runtime(token, "undefined variable", env)
  ELSE Ok(env[Innermost(env, token.name)][token.name], env)

\* Environment::assign: overwrite the innermost binding, else "undefined variable".
assign(env, token, value) ==
  IF Innermost(env, token.name) = 0
  THEN Runtime(token, "undefined variable", env)
  ELSE Ok(value, [env EXCEPT ![Innermost(env, token.name)][token.name] = value])

\* Environment::push_scope / pop_scope.
push_scope(env) == Append(env, EmptyFrame)
pop_scope(env) == SubSeq(env, 1, Len(env) - 1)

(***************************************************************************)
(* The expression evaluator (interpreter.rs:77-208).                       *)
(***************************************************************************)
\* LoxValue::as_number's panic: true when the call would panic.
as_number_panics(v) == ~is_number(v)

\* assert_two_numbers without its is_number test: any two of a kind pass.
assert_same_type(left, right) == type_matches(left, right)

\* assert_two_numbers (interpreter.rs:199-208): TRUE when it returns Ok(()).
assert_two_numbers(left, right) == type_matches(left, right) /\ is_number(left)

\* NumberArm with a check of the divisor: x / 0 is a Runtime error.
NumberArmChecksZero(op, left, right, val) ==
  IF ~assert_two_numbers(left, right)
  THEN Runtime(op, "operands must be two numbers", <<>>)
  ELSE IF as_number_panics(left) \/ as_number_panics(right) THEN Panic(<<>>)
  ELSE IF op.kind = "Slash" /\ IsZero(right) THEN Runtime(op, "division by zero", <<>>)
  ELSE val

\* One of the number-only arms of eval_binary_expr: the assertion, then
\* as_number on both sides, then the f64 operation.
NumberArm(op, left, right, val) ==
  IF ~assert_two_numbers(left, right)
  THEN Runtime(op, "operands must be two numbers", <<>>)
  ELSE IF as_number_panics(left) \/ as_number_panics(right) THEN Panic(<<>>)
  ELSE val

\* PlusArm that concatenates right before left.
PlusArmReversed(op, left, right) ==
  CASE left.t = "Number" /\ right.t = "Number" -> OkNumber(F64Add(left, right), <<>>)
    [] left.t = "String" /\ right.t = "String" ->
         IF Len(left.s) + Len(right.s) > MaxStrLen THEN Out(<<>>)
         ELSE Ok(String(right.s \o left.s), <<>>)
    [] OTHER -> Runtime(op, "+ needs either strings or numbers", <<>>)

\* The `+` arm: Number+Number, String+String, else an error.
PlusArm(op, left, right) ==
  CASE left.t = "Number" /\ right.t = "Number" -> OkNumber(F64Add(left, right), <<>>)
    [] left.t = "String" /\ right.t = "String" ->
         IF Len(left.s) + Len(right.s) > MaxStrLen THEN Out(<<>>)
         ELSE Ok(String(left.s \o right.s), <<>>)
    [] OTHER -> Runtime(op, "+ needs either strings or numbers", <<>>)

\* The match on op.kind of eval_binary_expr, on the two operand values.
ApplyBinary(op, left, right) ==
  CASE op.kind = "EqualEqual" -> Ok(Boolean(eq(left, right)), <<>>)
    [] op.kind = "BangEqual" -> Ok(Boolean(~eq(left, right)), <<>>)
    [] op.kind = "Minus" ->
         NumberArm(op, left, right, OkNumber(F64Sub(left, right), <<>>))
    [] op.kind = "Slash" ->
         NumberArm(op, left, right, OkNumber(F64Div(left, right), <<>>))
    [] op.kind = "Star" ->
         NumberArm(op, left, right, OkNumber(F64Mul(left, right), <<>>))
    [] op.kind = "Plus" -> PlusArm(op, left, right)
    [] op.kind = "Greater" ->
         NumberArm(op, left, right, Ok(Boolean(F64Gt(left, right)), <<>>))
    [] op.kind = "GreaterEqual" ->
         NumberArm(op, left, right, Ok(Boolean(F64Ge(left, right)), <<>>))
    [] op.kind = "Less" ->
         NumberArm(op, left, right, Ok(Boolean(F64Lt(left, right)), <<>>))
    [] op.kind = "LessEqual" ->
         NumberArm(op, left, right, Ok(Boolean(F64Le(left, right)), <<>>))
    [] OTHER -> Panic(<<>>)

\* The match on op.kind of eval_unary_expr, on the operand value.
ApplyUnary(op, right) ==
  CASE op.kind = "Bang" -> Ok(Boolean(~is_truthy(right)), <<>>)
    [] op.kind = "Minus" ->
         IF right.t = "Number" THEN OkNumber(F64Mul(Fin(-1), right), <<>>)
         ELSE Runtime(op, "unary minus only applicable to numbers", <<>>)
    [] OTHER -> Panic(<<>>)

\* LogicalShortCircuits as an evaluator of both operands: never the left.
LogicalNeverShortCircuits(op, left_val) == FALSE

\* Which operand of a Logical node decides it, given the left value:
\* TRUE when the left value is the result and the right is not evaluated.
LogicalShortCircuits(op, left_val) ==
  IF op.kind = "Or" THEN is_truthy(left_val) ELSE ~is_truthy(left_val)

\* AssignArm that binds the name when no frame does.
AssignArmCreates(token, value) ==
  LET assigned == assign(value.env, token, value.val)
  IN IF assigned.st # "ok"
     THEN Ok(value.val, define(value.env, token.name, value.val))
     ELSE Ok(value.val, assigned.env)

\* AssignArm that writes a bound name through define: into the innermost
\* frame, whichever frame binds it.
AssignArmDefines(token, value) ==
  LET assigned == assign(value.env, token, value.val)
  IN IF assigned.st # "ok" THEN assigned
     ELSE Ok(value.val, define(value.env, token.name, value.val))

\* AssignArm that yields no value of its own.
AssignArmYieldsNil(token, value) ==
  LET assigned == assign(value.env, token, value.val)
  IN IF assigned.st # "ok" THEN assigned ELSE Ok(Nil, assigned.env)

\* The Assign arm once the right-hand side has evaluated to value:
\* self.env.assign(&token, value.clone())?; value
AssignArm(token, value) ==
  LET assigned == assign(value.env, token, value.val)
  IN IF assigned.st # "ok" THEN assigned ELSE Ok(value.val, assigned.env)

RECURSIVE eval_expr(_, _)
\* eval_expr whose Binary arm rejects a left value no operand could go
\* with before it evaluates the right operand.
eval_expr_checks_left_first(expr, env) ==
  CASE expr.e = "Literal" -> Ok(FromLiteral(expr.val), env)
    [] expr.e = "Grouping" -> eval_expr(expr.inner, env)
    [] expr.e = "Unary" ->
         LET right == eval_expr(expr.right, env)
         IN IF right.st # "ok" THEN right
            ELSE WithEnv(ApplyUnary(expr.op, right.val), right.env)
    [] expr.e = "Binary" ->
         LET left == eval_expr(expr.left, env)
         IN IF left.st # "ok" THEN left
            ELSE IF ApplyBinary(expr.op, left.val, left.val).st = "err"
            THEN WithEnv(ApplyBinary(expr.op, left.val, left.val), left.env)
            ELSE LET right == eval_expr(expr.right, left.env)
                 IN IF right.st # "ok" THEN right
                    ELSE WithEnv(ApplyBinary(expr.op, left.val, right.val), right.env)
    [] expr.e = "Variable" -> get(env, expr.token)
    [] expr.e = "Assign" ->
         LET value == eval_expr(expr.expr, env)
         IN IF value.st # "ok" THEN value ELSE AssignArm(expr.token, value)
    [] expr.e = "Logical" ->
         LET left == eval_expr(expr.left, env)
         IN IF left.st # "ok" THEN left
            ELSE IF LogicalShortCircuits(expr.op, left.val) THEN left
            ELSE eval_expr(expr.right, left.env)

\* Interpreter::eval_expr, with eval_unary_expr and eval_binary_expr.
eval_expr(expr, env) ==
  CASE expr.e = "Literal" -> Ok(FromLiteral(expr.val), env)
    [] expr.e = "Grouping" -> eval_expr(expr.inner, env)
    [] expr.e = "Unary" ->
         LET right == eval_expr(expr.right, env)
         IN IF right.st # "ok" THEN right
            ELSE WithEnv(ApplyUnary(expr.op, right.val), right.env)
    [] expr.e = "Binary" ->
         LET left == eval_expr(expr.left, env)
         IN IF left.st # "ok" THEN left
            ELSE LET right == eval_expr(expr.right, left.env)
                 IN IF right.st # "ok" THEN right
                    ELSE WithEnv(ApplyBinary(expr.op, left.val, right.val), right.env)
    [] expr.e = "Variable" -> get(env, expr.token)
    [] expr.e = "Assign" ->
         LET value == eval_expr(expr.expr, env)
         IN IF value.st # "ok" THEN value ELSE AssignArm(expr.token, value)
    [] expr.e = "Logical" ->
         LET left == eval_expr(expr.left, env)
         IN IF left.st # "ok" THEN left
            ELSE IF LogicalShortCircuits(expr.op, left.val) THEN left
            ELSE eval_expr(expr.right, left.env)

(***************************************************************************)
(* impl Display for LoxValue (value.rs:92-102): the line Print writes.     *)
(***************************************************************************)
\* Rust's "{}" of an f64: no fraction for an integer, "-0", "inf", "NaN".
DisplayF64(n) ==
  CASE n.c = "nan" -> "NaN"
    [] n.c = "inf" -> IF n.neg THEN "-inf" ELSE "inf"
    [] OTHER -> IF n.neg THEN "-" \o ToString(n.m) ELSE ToString(n.m)

Display(v) ==
  CASE v.t = "Number" -> DisplayF64(v)
    [] v.t = "String" -> v.s
    [] v.t = "Boolean" -> IF v.b THEN "true" ELSE "false"
    [] v.t = "Function" -> "<function " \o v.s \o ">"
    [] v.t = "Nil" -> "nil"

(***************************************************************************)
(* Statement nodes, as Interpreter::execute matches them.                  *)
(***************************************************************************)
Empty == [s |-> "Empty"]
Block(stmts) == [s |-> "Block", stmts |-> stmts]
Expression(x) == [s |-> "Expression", expr |-> x]
\* Stmt::Print (the constructor is named apart from the TLC module's operator).
PrintStmt(x) == [s |-> "Print", expr |-> x]
Var(name, init) == [s |-> "Var", name |-> name, init |-> init]
If(cond, then_branch, else_branch) ==
  [s |-> "If", cond |-> cond, then_branch |-> then_branch, else_branch |-> else_branch]
While(cond, body) == [s |-> "While", cond |-> cond, body |-> body]

(***************************************************************************)
(* The statements the executor is run on: the names x and y, small         *)
(* literals, and every statement kind at up to two levels of nesting.      *)
(***************************************************************************)
Id(name, line) == Token("Identifier", name, line)
Op(kind, line) == Token(kind, "", line)

Num(i) == Literal(LitNumber(i))
Str(s) == Literal(LitString(s))
Bool(b) == Literal(LitBoolean(b))

\* x = x + 1, x < 2, -y
IncrX == Expression(Assign(Id("x", 1), Binary(Variable(Id("x", 2)), Op("Plus", 2), Num(1))))
XBelow2 == Binary(Variable(Id("x", 3)), Op("Less", 3), Num(2))
NegY == Expression(Unary(Op("Minus", 4), Variable(Id("y", 4))))

\* A unary node whose operator is none that eval_unary_expr matches.
BadUnary == Expression(Unary(Op("Plus", 8), Num(1)))

\* Statements without a statement inside.
SimpleStmts ==
  { Empty,
    Var("x", Num(1)), Var("x", Num(2)), Var("y", Str("a")),
    Var("y", Variable(Id("x", 5))), Var("x", Variable(Id("x", 5))),
    Expression(Assign(Id("x", 1), Num(2))), IncrX,
    Expression(Assign(Id("y", 1), Variable(Id("x", 2)))),
    NegY, BadUnary,
    PrintStmt(Variable(Id("x", 6))), PrintStmt(Variable(Id("y", 6))) }

\* The blocks of one level: empty, one statement, a declaration or an
\* assignment followed by a use.
FlatBlocks ==
  {Block(<<>>)}
    \cup { Block(<<a>>) : a \in {Var("x", Num(2)), IncrX, NegY, PrintStmt(Variable(Id("x", 6)))} }
    \cup { Block(<<a, b>>) :
             a \in {Var("x", Num(2)), Var("y", Str("a")), IncrX},
             b \in {NegY, PrintStmt(Variable(Id("x", 6))),
                     Expression(Assign(Id("y", 1), Variable(Id("x", 2))))} }

NestedBlocks ==
  { Block(<<Var("x", Num(2)), Block(<<a>>), PrintStmt(Variable(Id("x", 6)))>>) :
      a \in {Var("x", Num(1)), IncrX, NegY, Var("y", Str("a"))} }
    \cup { Block(<<Block(<<Var("y", Num(1)), a>>), b>>) :
             a \in {NegY, IncrX}, b \in {NegY, PrintStmt(Variable(Id("y", 6)))} }

IfStmts ==
  { If(c, a, b) :
      c \in {Variable(Id("x", 7)), XBelow2},
      a \in {IncrX, Block(<<Var("x", Num(2)), PrintStmt(Variable(Id("x", 6)))>>)},
      b \in {Empty, Block(<<Var("y", Str("a")), NegY>>)} }

WhileStmts ==
  { While(XBelow2, IncrX),
    While(XBelow2, Block(<<PrintStmt(Variable(Id("x", 6))), IncrX>>)),
    While(XBelow2, Block(<<Var("y", Variable(Id("x", 5))), IncrX>>)),
    While(Bool(FALSE), NegY),
    While(Variable(Id("y", 7)), Block(<<Var("x", Num(1)), NegY>>)),
    While(Bool(TRUE), Block(<<IncrX, If(XBelow2, Empty, NegY)>>)),
    While(Bool(TRUE), Empty) }

Stmts == SimpleStmts \cup FlatBlocks \cup NestedBlocks \cup IfStmts \cup WhileStmts

(***************************************************************************)
(* The state of one Interpreter and of the calls made on it.               *)
(*   env     Interpreter.env, the scope stack                              *)
(*   out     the lines the current call of interpret has written           *)
(*   stack   the call stack: interpret and, above it, the execute calls    *)
(*           in progress                                                   *)
(*   ret     what the callee that returned last handed to the frame on top *)
(*   result  what the last finished call of interpret returned             *)
(*   calls   the calls of interpret made so far                            *)
(*   handed  the statements handed to interpret so far, over all calls     *)
(*   failed  TRUE once a call of interpret has returned an error           *)
(*   probe   one application of the evaluator, or of an operator, to       *)
(*           inputs of its own (SpecEval, SpecValue); in SpecTwo, a second *)
(*           Interpreter, probe.env being its Environment                  *)
(***************************************************************************)
VARIABLES env, out, stack, ret, result, calls, handed, failed, probe

vars == <<env, out, stack, ret, result, calls, handed, failed, probe>>

\* A frame of the call stack.  k: "interpret", or "exec" for a call of
\* execute that has not yet matched its statement, or the statement kind
\* ("block", "if", "while") whose arm a call of execute is inside.  s: the
\* statement.  rest: the statements the frame's for loop has yet to reach.
\* n: how many statements interpret's vector still holds.  d and saved: the
\* depth of env, and env itself, when the call was made.
Frame(k, s, rest, n, e) ==
  [k |-> k, s |-> s, rest |-> rest, n |-> n, d |-> Len(e), saved |-> e]

Top == stack[Len(stack)]
Pop == SubSeq(stack, 1, Len(stack) - 1)
Push(f) == Append(stack, f)
Replace(f) == Append(Pop, f)

\* Result<()>: Ok(()) and the results that are not values.
OkUnit == Ok(Nil, <<>>)
Pending == Res("none", Nil, <<>>, NoToken, "")
Returned(r) == Res(r.st, Nil, <<>>, r.tok, r.msg)

Running == stack # <<>>
Calling(kind) == Running /\ Top.k = "exec" /\ Top.s.s = kind /\ ret.st = "ok"

\* The interpreter as Interpreter::new leaves it, no call made.
Fresh ==
  /\ env = EnvNew
  /\ out = <<>>
  /\ stack = <<>>
  /\ ret = OkUnit
  /\ result = Pending
  /\ calls = 0
  /\ handed = 0
  /\ failed = FALSE

\* One application: of eval_expr to expr in env ("eval"), of the binary
\* match to left and right ("binary"), of the unary match to right
\* ("unary"); res is Pending until it is made.
Probe(kind, expr, e, op, left, right) ==
  [kind |-> kind, expr |-> expr, env |-> e, op |-> op, left |-> left,
   right |-> right, res |-> Pending]

NoProbe == Probe("none", Literal(LitNil), <<>>, NoToken, Nil, Nil)

Init ==
  /\ Fresh
  /\ probe = NoProbe

(***************************************************************************)
(* Interpreter::interpret (interpreter.rs:19-25).  A call fixes the length *)
(* of its statement vector; the for loop never looks ahead, so each        *)
(* statement is drawn when the loop reaches it.                            *)
(***************************************************************************)
\* Interpret that makes a new Environment for each call.
InterpretFreshEnv(n) ==
  /\ ~Running
  /\ result.st # "panic"
  /\ calls < MaxCalls
  /\ handed + n <= MaxStmts
  /\ env' = EnvNew
  /\ stack' = <<Frame("interpret", Empty, <<>>, n, EnvNew)>>
  /\ out' = <<>>
  /\ ret' = OkUnit
  /\ result' = Pending
  /\ calls' = calls + 1
  /\ handed' = handed + n
  /\ UNCHANGED <<failed, probe>>

Interpret(n) ==
  /\ ~Running
  /\ result.st # "panic"
  /\ calls < MaxCalls
  /\ handed + n <= MaxStmts
  /\ stack' = <<Frame("interpret", Empty, <<>>, n, env)>>
  /\ out' = <<>>
  /\ ret' = OkUnit
  /\ result' = Pending
  /\ calls' = calls + 1
  /\ handed' = handed + n
  /\ UNCHANGED <<env, failed, probe>>

\* for stmt in statements { self.execute(&stmt) ... }
InterpretNext(stmt) ==
  /\ Running /\ Top.k = "interpret" /\ ret.st = "ok" /\ Top.n > 0
  /\ stack' = Append(Replace([Top EXCEPT !.n = @ - 1]),
                     Frame("exec", stmt, <<>>, 0, env))
  /\ UNCHANGED <<env, out, ret, result, calls, handed, failed, probe>>

\* The loop is over: Ok(()).
InterpretOk ==
  /\ Running /\ Top.k = "interpret" /\ ret.st = "ok" /\ Top.n = 0
  /\ stack' = <<>>
  /\ result' = OkUnit
  /\ UNCHANGED <<env, out, ret, calls, handed, failed, probe>>

\* self.execute(&stmt)? returned an error: interpret returns it.
InterpretErr ==
  /\ Running /\ Top.k = "interpret" /\ ret.st = "err"
  /\ stack' = <<>>
  /\ result' = ret
  /\ failed' = TRUE
  /\ UNCHANGED <<env, out, ret, calls, handed, probe>>

\* A panic unwinds every call and ends the process.
Abort ==
  /\ Running /\ ret.st = "panic"
  /\ stack' = <<>>
  /\ result' = ret
  /\ UNCHANGED <<env, out, ret, calls, handed, failed, probe>>

(***************************************************************************)
(* Interpreter::execute (interpreter.rs:27-75), one action per arm.        *)
(***************************************************************************)
\* Stmt::Empty => ()
ExecEmpty ==
  /\ Calling("Empty")
  /\ stack' = Pop
  /\ UNCHANGED <<env, out, ret, result, calls, handed, failed, probe>>

\* ExecBlock without its push_scope: the block runs in its caller's frame.
ExecBlockNoPush ==
  /\ Calling("Block")
  /\ stack' = Replace([Top EXCEPT !.k = "block", !.rest = Top.s.stmts])
  /\ UNCHANGED <<env, out, ret, result, calls, handed, failed, probe>>

\* Stmt::Block: push_scope, then the for loop over the block.
ExecBlock ==
  /\ Calling("Block")
  /\ env' = push_scope(env)
  /\ stack' = Replace([Top EXCEPT !.k = "block", !.rest = Top.s.stmts])
  /\ UNCHANGED <<out, ret, result, calls, handed, failed, probe>>

\* for statement in block { self.execute(statement) ... }
BlockNext ==
  /\ Running /\ Top.k = "block" /\ ret.st = "ok" /\ Top.rest # <<>>
  /\ stack' = Append(Replace([Top EXCEPT !.rest = Tail(@)]),
                     Frame("exec", Head(Top.rest), <<>>, 0, env))
  /\ UNCHANGED <<env, out, ret, result, calls, handed, failed, probe>>

\* BlockEnd without its pop_scope.
BlockEndNoPop ==
  /\ Running /\ Top.k = "block" /\ ret.st = "ok" /\ Top.rest = <<>>
  /\ stack' = Pop
  /\ UNCHANGED <<env, out, ret, result, calls, handed, failed, probe>>

\* The loop is over: pop_scope, Ok(()).
BlockEnd ==
  /\ Running /\ Top.k = "block" /\ ret.st = "ok" /\ Top.rest = <<>>
  /\ env' = pop_scope(env)
  /\ stack' = Pop
  /\ UNCHANGED <<out, ret, result, calls, handed, failed, probe>>

\* BlockErr with the error dropped (execute's result ignored, no `?`): the
\* loop goes on.
BlockErrSwallowed ==
  /\ Running /\ Top.k = "block" /\ ret.st = "err"
  /\ ret' = OkUnit
  /\ UNCHANGED <<env, out, stack, result, calls, handed, failed, probe>>

\* BlockErr that restores the scope before it returns the error.
BlockErrPops ==
  /\ Running /\ Top.k = "block" /\ ret.st = "err"
  /\ env' = pop_scope(env)
  /\ stack' = Pop
  /\ UNCHANGED <<out, ret, result, calls, handed, failed, probe>>

\* self.execute(statement)? returned an error: the block returns it at
\* once, its scope still pushed.
BlockErr ==
  /\ Running /\ Top.k = "block" /\ ret.st = "err"
  /\ stack' = Pop
  /\ UNCHANGED <<env, out, ret, result, calls, handed, failed, probe>>

\* ExecExpression that writes the value, as a prompt would echo it.
ExecExpressionEchoes ==
  /\ Calling("Expression")
  /\ LET r == eval_expr(Top.s.expr, env)
     IN /\ r.st # "out"
        /\ env' = r.env
        /\ out' = IF r.st = "ok" /\ Len(out) < MaxOut THEN Append(out, Display(r.val))
                  ELSE out
        /\ ret' = IF r.st = "ok" THEN OkUnit ELSE Returned(r)
  /\ stack' = Pop
  /\ UNCHANGED <<result, calls, handed, failed, probe>>

\* Stmt::Expression: evaluate, drop the value.
ExecExpression ==
  /\ Calling("Expression")
  /\ LET r == eval_expr(Top.s.expr, env)
     IN /\ r.st # "out"
        /\ env' = r.env
        /\ ret' = IF r.st = "ok" THEN OkUnit ELSE Returned(r)
  /\ stack' = Pop
  /\ UNCHANGED <<out, result, calls, handed, failed, probe>>

\* Stmt::Print: evaluate, println!("{}", val).
ExecPrint ==
  /\ Calling("Print")
  /\ LET r == eval_expr(Top.s.expr, env)
     IN /\ r.st # "out"
        /\ r.st = "ok" => Len(out) < MaxOut
        /\ env' = r.env
        /\ out' = IF r.st = "ok" THEN Append(out, Display(r.val)) ELSE out
        /\ ret' = IF r.st = "ok" THEN OkUnit ELSE Returned(r)
  /\ stack' = Pop
  /\ UNCHANGED <<result, calls, handed, failed, probe>>

\* ExecVar that defines the name in the base frame, not the innermost.
ExecVarGlobal ==
  /\ Calling("Var")
  /\ LET r == eval_expr(Top.s.init, env)
     IN /\ r.st # "out"
        /\ env' = IF r.st = "ok"
                  THEN [r.env EXCEPT ![1] = define(<<r.env[1]>>, Top.s.name, r.val)[1]]
                  ELSE r.env
        /\ ret' = IF r.st = "ok" THEN OkUnit ELSE Returned(r)
  /\ stack' = Pop
  /\ UNCHANGED <<out, result, calls, handed, failed, probe>>

\* ExecVar that declares the name (as nil) before it evaluates the
\* initializer.
ExecVarDeclaresFirst ==
  /\ Calling("Var")
  /\ LET r == eval_expr(Top.s.init, define(env, Top.s.name, Nil))
     IN /\ r.st # "out"
        /\ env' = IF r.st = "ok" THEN define(r.env, Top.s.name, r.val) ELSE r.env
        /\ ret' = IF r.st = "ok" THEN OkUnit ELSE Returned(r)
  /\ stack' = Pop
  /\ UNCHANGED <<out, result, calls, handed, failed, probe>>

\* Stmt::Var: evaluate the initializer, then define the name.
ExecVar ==
  /\ Calling("Var")
  /\ LET r == eval_expr(Top.s.init, env)
     IN /\ r.st # "out"
        /\ env' = IF r.st = "ok" THEN define(r.env, Top.s.name, r.val) ELSE r.env
        /\ ret' = IF r.st = "ok" THEN OkUnit ELSE Returned(r)
  /\ stack' = Pop
  /\ UNCHANGED <<out, result, calls, handed, failed, probe>>

\* Stmt::If: evaluate the condition, execute one branch.
ExecIf ==
  /\ Calling("If")
  /\ LET r == eval_expr(Top.s.cond, env)
     IN /\ r.st # "out"
        /\ env' = r.env
        /\ IF r.st = "ok"
           THEN /\ ret' = OkUnit
                /\ stack' = Append(Replace([Top EXCEPT !.k = "if"]),
                                   Frame("exec",
                                         IF is_truthy(r.val) THEN Top.s.then_branch
                                         ELSE Top.s.else_branch,
                                         <<>>, 0, r.env))
           ELSE /\ ret' = Returned(r)
                /\ stack' = Pop
  /\ UNCHANGED <<out, result, calls, handed, failed, probe>>

\* self.execute(branch)?, then Ok(()): the branch's result is the If's.
IfReturn ==
  /\ Running /\ Top.k = "if" /\ ret.st \in {"ok", "err"}
  /\ stack' = Pop
  /\ UNCHANGED <<env, out, ret, result, calls, handed, failed, probe>>

\* ExecWhile as an `if`: after the body, Ok(()) without a look at the
\* condition.
ExecWhileOnce ==
  /\ Running /\ ret.st = "ok"
  /\ Top.k = "while" \/ (Top.k = "exec" /\ Top.s.s = "While")
  /\ LET r == eval_expr(Top.s.cond, env)
     IN /\ r.st # "out"
        /\ IF Top.k = "while"
           THEN /\ env' = env
                /\ ret' = OkUnit
                /\ stack' = Pop
           ELSE /\ env' = r.env
                /\ IF r.st = "ok" /\ is_truthy(r.val)
                   THEN /\ ret' = OkUnit
                        /\ stack' = Append(Replace([Top EXCEPT !.k = "while"]),
                                           Frame("exec", Top.s.body, <<>>, 0, r.env))
                   ELSE /\ ret' = IF r.st = "ok" THEN OkUnit ELSE Returned(r)
                        /\ stack' = Pop
  /\ UNCHANGED <<out, result, calls, handed, failed, probe>>

\* Stmt::While: evaluate the condition; truthy, execute the body and come
\* back here; falsy, Ok(()).
ExecWhile ==
  /\ Running /\ ret.st = "ok"
  /\ Top.k = "while" \/ (Top.k = "exec" /\ Top.s.s = "While")
  /\ LET r == eval_expr(Top.s.cond, env)
     IN /\ r.st # "out"
        /\ env' = r.env
        /\ IF r.st = "ok" /\ is_truthy(r.val)
           THEN /\ ret' = OkUnit
                /\ stack' = Append(Replace([Top EXCEPT !.k = "while"]),
                                   Frame("exec", Top.s.body, <<>>, 0, r.env))
           ELSE /\ ret' = IF r.st = "ok" THEN OkUnit ELSE Returned(r)
                /\ stack' = Pop
  /\ UNCHANGED <<out, result, calls, handed, failed, probe>>

\* self.execute(body)? returned an error: the loop returns it.
WhileErr ==
  /\ Running /\ Top.k = "while" /\ ret.st = "err"
  /\ stack' = Pop
  /\ UNCHANGED <<env, out, ret, result, calls, handed, failed, probe>>

Next ==
  \/ \E n \in 0..MaxStmts : Interpret(n)
  \/ \E stmt \in Stmts : InterpretNext(stmt)
  \/ InterpretOk
  \/ InterpretErr
  \/ Abort
  \/ ExecEmpty
  \/ ExecBlock
  \/ BlockNext
  \/ BlockEnd
  \/ BlockErr
  \/ ExecExpression
  \/ ExecPrint
  \/ ExecVar
  \/ ExecIf
  \/ IfReturn
  \/ ExecWhile
  \/ WhileErr

Spec == Init /\ [][Next]_vars

(***************************************************************************)
(* The evaluator on its own: eval_expr applied once to an expression in an *)
(* environment.  Operands carry the line of the side they stand on (left   *)
(* 1, right 2) and operators line 3, so that an error's token tells where  *)
(* it came from.                                                           *)
(***************************************************************************)
Atoms(line) ==
  { Num(1), Str("a"), Bool(TRUE), Bool(FALSE), Literal(LitNil),
    Variable(Id("x", line)), Variable(Id("y", line)) }

\* Operands: atoms, assignments (the side effects), and an operand that
\* fails whenever it is evaluated.
Operands(line) ==
  Atoms(line)
    \cup { Assign(Id("x", line), Num(2)), Assign(Id("y", line), Str("b")),
           Assign(Id("y", line), Variable(Id("x", line))),
           Unary(Op("Minus", line), Str("a")) }

LogicalOps == {"Or", "And"}
BinaryOps ==
  { "EqualEqual", "BangEqual", "Minus", "Slash", "Star", "Plus",
    "Greater", "GreaterEqual", "Less", "LessEqual" }
UnaryOps == {"Bang", "Minus"}
\* A kind none of the three matches expects in an operator's place.
BadOp == "Comma"

EvalExprs ==
  Operands(1)
    \cup { Grouping(a) : a \in Operands(1) }
    \cup { Unary(Op(k, 3), a) : k \in UnaryOps \cup {BadOp}, a \in Operands(2) }
    \cup { Logical(a, Op(k, 3), b) :
             k \in LogicalOps \cup {BadOp}, a \in Operands(1), b \in Operands(2) }
    \cup { Binary(a, Op(k, 3), b) :
             k \in {"EqualEqual", "Plus", "Minus", "Less", BadOp},
             a \in Operands(1), b \in Operands(2) }
    \cup { Assign(Id(n, 3), a) :
             n \in {"x", "y"},
             a \in Operands(2)
                     \cup { Assign(Id("y", 2), Assign(Id("x", 1), Num(2))),
                            Binary(Variable(Id("x", 1)), Op("Plus", 2), Num(1)) } }

\* Scope stacks: a base frame, and under some a block's frame that
\* shadows x or y.
EvalFrames ==
  { <<>>, "x" :> Fin(1), "x" :> String("a"), "x" :> Nil,
    "y" :> Fin(2), ("x" :> Fin(1)) @@ ("y" :> Fin(2)),
    ("x" :> String("a")) @@ ("y" :> Boolean(FALSE)) }

EvalEnvs ==
  { <<f>> : f \in EvalFrames }
    \cup { <<f, g>> : f \in EvalFrames, g \in {<<>>, "x" :> Boolean(FALSE), "y" :> String("b")} }

InitEval ==
  /\ Fresh
  /\ probe \in { Probe("eval", x, e, NoToken, Nil, Nil) : x \in EvalExprs, e \in EvalEnvs }

\* eval_expr(expr) against env, whatever arm of its match expr takes.
Evaluate(arm) ==
  /\ probe.kind = "eval" /\ probe.res = Pending
  /\ probe.expr.e = arm
  /\ eval_expr(probe.expr, probe.env).st # "out"
  /\ probe' = [probe EXCEPT !.res = eval_expr(probe.expr, probe.env)]
  /\ UNCHANGED <<env, out, stack, ret, result, calls, handed, failed>>

EvalLiteral == Evaluate("Literal")
EvalGrouping == Evaluate("Grouping")
EvalUnary == Evaluate("Unary")
EvalBinary == Evaluate("Binary")
EvalVariable == Evaluate("Variable")
EvalAssign == Evaluate("Assign")
EvalLogical == Evaluate("Logical")

NextEval ==
  \/ EvalLiteral
  \/ EvalGrouping
  \/ EvalUnary
  \/ EvalBinary
  \/ EvalVariable
  \/ EvalAssign
  \/ EvalLogical

SpecEval == InitEval /\ [][NextEval]_vars

(***************************************************************************)
(* The operators on their own: the match of eval_binary_expr applied once  *)
(* to a pair of values, the match of eval_unary_expr to one value.         *)
(***************************************************************************)
Numbers ==
  { Fin(i) : i \in -MaxNum..MaxNum } \cup {NegZero, Inf, NegInf, NaN}

Values ==
  Numbers
    \cup { String(s) : s \in {"", "a", "b", "ab"} }
    \cup { Boolean(b) : b \in BOOLEAN }
    \cup { Function("clock", 0), Function("f", 1) }
    \cup { Nil }

InitValue ==
  /\ Fresh
  /\ probe \in
       { Probe("binary", Literal(LitNil), <<>>, Op(k, 1), a, b) :
           k \in BinaryOps \cup {BadOp}, a \in Values, b \in Values }
         \cup { Probe("unary", Literal(LitNil), <<>>, Op(k, 1), Nil, b) :
                  k \in UnaryOps \cup {BadOp}, b \in Values }

\* The binary match on (left, right).
ApplyBinaryOp ==
  /\ probe.kind = "binary" /\ probe.res = Pending
  /\ ApplyBinary(probe.op, probe.left, probe.right).st # "out"
  /\ probe' = [probe EXCEPT !.res = ApplyBinary(probe.op, probe.left, probe.right)]
  /\ UNCHANGED <<env, out, stack, ret, result, calls, handed, failed>>

\* The unary match on right.
ApplyUnaryOp ==
  /\ probe.kind = "unary" /\ probe.res = Pending
  /\ ApplyUnary(probe.op, probe.right).st # "out"
  /\ probe' = [probe EXCEPT !.res = ApplyUnary(probe.op, probe.right)]
  /\ UNCHANGED <<env, out, stack, ret, result, calls, handed, failed>>

NextValue ==
  \/ ApplyBinaryOp
  \/ ApplyUnaryOp

SpecValue == InitValue /\ [][NextValue]_vars

(***************************************************************************)
(* The executor on one statement: interpret is about to execute the last   *)
(* statement of its vector, in an environment whose x and y hold any       *)
(* values earlier statements can have left there.  Together with the       *)
(* operators on their own (SpecOps), so that a rule of the values and its  *)
(* use by the executor are checked side by side.                           *)
(***************************************************************************)
\* The values a variable can hold: no statement makes a Function.
ExecValues == { v \in Values : v.t # "Function" }

ExecEnvs ==
  { <<("x" :> v) @@ ("y" :> w)>> :
      v \in ExecValues, w \in {Fin(0), NegZero, Fin(2), String("a")} }
    \cup { <<"y" :> Fin(2)>> }

VarX == Variable(Id("x", 1))
VarY == Variable(Id("y", 2))

\* { while (x < 2) x = x + 1; print x; }
LoopThenPrint == Block(<<While(XBelow2, IncrX), PrintStmt(VarX)>>)

\* { var x = x; print x; }
ShadowFromOuter == Block(<<Var("x", VarX), PrintStmt(VarX)>>)

ExecStmts ==
  { LoopThenPrint, ShadowFromOuter,
    Block(<<Var("y", Str("b")), Var("y", VarX), PrintStmt(VarY)>>),
    If(VarX, PrintStmt(Str("a")), PrintStmt(Str("b"))),
    If(VarX, Empty, BadUnary),
    While(VarX, Block(<<PrintStmt(Str("a")),
                        Expression(Assign(Id("x", 4), Literal(LitNil)))>>)),
    While(VarX, NegY),
    PrintStmt(Unary(Op("Bang", 3), VarX)),
    PrintStmt(Logical(VarX, Op("Or", 3), VarY)),
    PrintStmt(Logical(VarX, Op("And", 3), VarY)) }
    \cup { Block(<<Var("x", Binary(VarX, Op(k, 3), VarY)),
                   PrintStmt(VarX)>>) : k \in {"Slash", "Star", "Minus"} }

InitExec ==
  /\ env \in ExecEnvs
  /\ out = <<>>
  /\ stack \in { <<Frame("interpret", Empty, <<>>, 0, env),
                    Frame("exec", stmt, <<>>, 0, env)>> : stmt \in ExecStmts }
  /\ ret = OkUnit
  /\ result = Pending
  /\ calls = 1
  /\ handed = 1
  /\ failed = FALSE
  /\ probe = NoProbe

NextExec ==
  \/ InterpretOk
  \/ InterpretErr
  \/ Abort
  \/ ExecEmpty
  \/ ExecBlock
  \/ BlockNext
  \/ BlockEnd
  \/ BlockErr
  \/ ExecExpression
  \/ ExecPrint
  \/ ExecVar
  \/ ExecIf
  \/ IfReturn
  \/ ExecWhile
  \/ WhileErr

\* A call in progress goes on: the executor is one sequential program.
SpecExec == InitExec /\ [][NextExec]_vars /\ WF_vars(NextExec)

SpecOps == (InitValue \/ InitExec) /\ [][NextValue \/ NextExec]_vars

(***************************************************************************)
(* Two Interpreters in one program, each made by Interpreter::new.  The    *)
(* first is the state machine above, on statements without a statement     *)
(* inside; the second, whose Environment is probe.env, is handed one       *)
(* statement per call, between the calls of the first (the program is      *)
(* sequential, and interpret needs &mut self).                             *)
(***************************************************************************)
Other(e) == Probe("other", Literal(LitNil), e, NoToken, Nil, Nil)

OtherStmts ==
  { Var("x", Num(2)), Var("y", Variable(Id("x", 5))), IncrX,
    Expression(Variable(Id("y", 4))) }

\* other.interpret(vec![stmt]): the Var and Expression arms of execute on
\* the second Interpreter's own env.
OtherInterpret(stmt) ==
  /\ ~Running /\ result.st # "panic"
  /\ probe.kind = "other"
  /\ LET r == eval_expr(IF stmt.s = "Var" THEN stmt.init ELSE stmt.expr, probe.env)
     IN /\ r.st \in {"ok", "err"}
        /\ probe' = [probe EXCEPT !.env = IF stmt.s = "Var" /\ r.st = "ok"
                                          THEN define(r.env, stmt.name, r.val)
                                          ELSE r.env]
  /\ UNCHANGED <<env, out, stack, ret, result, calls, handed, failed>>

InitTwo ==
  /\ Fresh
  /\ probe = Other(EnvNew)

NextTwo ==
  \/ \E n \in 0..MaxStmts : Interpret(n)
  \/ \E stmt \in SimpleStmts : InterpretNext(stmt)
  \/ InterpretOk
  \/ InterpretErr
  \/ Abort
  \/ ExecEmpty
  \/ ExecExpression
  \/ ExecPrint
  \/ ExecVar
  \/ \E stmt \in OtherStmts : OtherInterpret(stmt)

SpecTwo == InitTwo /\ [][NextTwo]_vars

(***************************************************************************)
(* What the properties below speak of.                                     *)
(***************************************************************************)
RECURSIVE ExprAssigns(_, _)
\* The expression holds an assignment to name.
ExprAssigns(x, name) ==
  CASE x.e = "Literal" -> FALSE
    [] x.e = "Variable" -> FALSE
    [] x.e = "Grouping" -> ExprAssigns(x.inner, name)
    [] x.e = "Unary" -> ExprAssigns(x.right, name)
    [] x.e = "Assign" -> x.token.name = name \/ ExprAssigns(x.expr, name)
    [] OTHER -> ExprAssigns(x.left, name) \/ ExprAssigns(x.right, name)

RECURSIVE StmtAssigns(_, _)
\* The statement holds, at any depth, an assignment to name.
StmtAssigns(st, name) ==
  CASE st.s = "Empty" -> FALSE
    [] st.s = "Block" -> \E i \in 1..Len(st.stmts) : StmtAssigns(st.stmts[i], name)
    [] st.s = "Var" -> ExprAssigns(st.init, name)
    [] st.s = "If" ->
         \/ ExprAssigns(st.cond, name)
         \/ StmtAssigns(st.then_branch, name)
         \/ StmtAssigns(st.else_branch, name)
    [] st.s = "While" -> ExprAssigns(st.cond, name) \/ StmtAssigns(st.body, name)
    [] OTHER -> ExprAssigns(st.expr, name)

Names == {"x", "y"}

\* What a read of name finds in scope stack e: the binding of the last
\* frame that has one, or Unbound.
Unbound == [t |-> "Unbound", c |-> "fin", neg |-> FALSE, m |-> 0, s |-> "", b |-> FALSE]

RECURSIVE Lookup(_, _)
Lookup(e, name) ==
  IF e = <<>> THEN Unbound
  ELSE IF name \in DOMAIN e[Len(e)] THEN e[Len(e)][name]
  ELSE Lookup(SubSeq(e, 1, Len(e) - 1), name)

\* The frames of the call stack that are blocks in execution.
BlockFrames == {i \in 1..Len(stack) : stack[i].k = "block"}

\* The statements of block frame f that have been executed to the end:
\* all those before the ones the loop has yet to reach, less the one in
\* execution when f is not on top.
Done(i) ==
  SubSeq(stack[i].s.stmts, 1,
         Len(stack[i].s.stmts) - Len(stack[i].rest) - (IF i = Len(stack) THEN 0 ELSE 1))

\* A step in which the call on top returns Ok(()) to its caller.
ReturnsOk == Running /\ stack' = Pop /\ ret'.st = "ok"

(***************************************************************************)
(* C1.  Shadowing and restoration.                                         *)
(***************************************************************************)
\* Name is declared by statement j of the executed part of block frame i,
\* with a literal initializer, and nothing executed in the block since
\* declares it again or assigns to it.
DeclaredLast(i, j, name) ==
  /\ Done(i)[j].s = "Var" /\ Done(i)[j].name = name /\ Done(i)[j].init.e = "Literal"
  /\ \A k \in (j + 1)..Len(Done(i)) :
       ~StmtAssigns(Done(i)[k], name) /\ ~(Done(i)[k].s = "Var" /\ Done(i)[k].name = name)
  /\ i < Len(stack) =>
       ~StmtAssigns(stack[i].s.stmts[Len(Done(i)) + 1], name)

\* Inside the block, after `var x = w`, x is w in the block's scope.
C1_ShadowInside ==
  ret.st = "ok" =>
    \A i \in BlockFrames : \A name \in Names : \A j \in 1..Len(Done(i)) :
      DeclaredLast(i, j, name) =>
        /\ Len(env) > stack[i].d
        /\ Lookup(SubSeq(env, 1, stack[i].d + 1), name) = FromLiteral(Done(i)[j].init.val)

\* While a block that assigns nothing to x executes, whatever it declares,
\* every frame outside it binds x as it did when the block was entered.
C1_OuterUntouched ==
  \A i \in BlockFrames : \A name \in Names :
    ~StmtAssigns(stack[i].s, name) =>
      \A j \in 1..stack[i].d :
        /\ j <= Len(env)
        /\ (name \in DOMAIN env[j]) = (name \in DOMAIN stack[i].saved[j])
        /\ name \in DOMAIN env[j] => env[j][name] = stack[i].saved[j][name]

\* When such a block returns Ok, a read of x finds what it found before.
C1_RestoredOnExit ==
  (ReturnsOk /\ Top.k = "block") =>
    \A name \in Names :
      (Lookup(Top.saved, name) # Unbound /\ ~StmtAssigns(Top.s, name)) =>
        Lookup(env', name) = Lookup(Top.saved, name)

\* C1: a block that declares `var x = w` over an outer x = v reads w for x
\* after the declaration, leaves the outer binding of x as it was, and a
\* read of x after the block has returned Ok finds v again (no assignment
\* to x having been made).
C1_Shadowing ==
  /\ [](C1_ShadowInside /\ C1_OuterUntouched)
  /\ [][C1_RestoredOnExit]_vars

\* `var x = 1; { var x = 2; print x; } print x;` has printed 2, then 1.
C1_Witness ==
  /\ ~Running /\ result.st = "ok" /\ handed = 3 /\ calls = 1
  /\ out = <<"2", "1">>
  /\ env = <<"x" :> Fin(1)>>

(***************************************************************************)
(* C2.  Scope balance on success.                                          *)
(***************************************************************************)
\* The base frame is never popped; while statements execute with no error
\* raised, the depth is the depth at the call of interpret plus the blocks
\* in execution, and that depth is 1 unless an earlier call failed.
C2_Depth ==
  /\ Len(env) >= 1
  /\ (Running /\ ret.st = "ok") =>
       /\ Len(env) = stack[1].d + Cardinality(BlockFrames)
       /\ ~failed => Len(env) = 1 + Cardinality(BlockFrames)

\* A call that returns Ok leaves the depth it found.
C2_Balanced == ReturnsOk => Len(env') = Top.d

\* C2: every execute (and interpret) that returns success leaves the scope
\* stack as deep as it found it; on an interpreter no call of which has
\* failed the depth is never below 1 and, while statements execute, is 1
\* plus the number of blocks in execution.
C2_ScopeBalance == []C2_Depth /\ [][C2_Balanced]_vars

\* Two nested blocks in execution on an interpreter that never failed.
C2_Witness ==
  /\ Running /\ ~failed /\ ret.st = "ok"
  /\ Cardinality(BlockFrames) = 2 /\ Len(env) = 3

(***************************************************************************)
(* C3.  Fail-fast.                                                         *)
(***************************************************************************)
\* While an error travels up, each step only returns it one call further:
\* nothing is written, no binding changes, nothing else is executed, and
\* from interpret's own frame it becomes the call's result.
C3_Step ==
  (Running /\ ret.st = "err") =>
    /\ out' = out /\ env' = env /\ handed' = handed
    /\ stack' = Pop
    /\ ret' = ret
    /\ Len(stack) = 1 => result' = ret

\* C3: once a statement has produced a Runtime error, interpret returns
\* exactly that error, and no statement after it, at top level, in an
\* enclosing block or in a further turn of an enclosing loop, is executed.
C3_FailFast == [][C3_Step]_vars

\* An error on its way up through a block that has statements left, in a
\* call of interpret that has statements left.
C3_Witness ==
  /\ Running /\ ret.st = "err"
  /\ Top.k = "block" /\ Top.rest # <<>>
  /\ stack[1].n > 0

(***************************************************************************)
(* Properties of the evaluator (SpecEval).                                 *)
(***************************************************************************)
\* eval_expr has been applied to an expression of this arm.
Evaluated(arm) == probe.kind = "eval" /\ probe.res # Pending /\ probe.expr.e = arm

\* The truthiness rule: Nil and Boolean(false) are falsy, all else truthy.
Truthy(v) == ~(v.t = "Nil" \/ (v.t = "Boolean" /\ v.b = FALSE))

\* A read of name in scope stack e, as an expression would make it.
ReadIn(e, name) == eval_expr(Variable(Id(name, 9)), e)

(***************************************************************************)
(* C4.  Short-circuit.                                                     *)
(***************************************************************************)
\* C4: a Logical expression evaluates its left operand first; `or` on a
\* truthy left value and `and` on a falsy one yield that very value and
\* leave the right operand unevaluated (its assignment is not made, its
\* error not raised); otherwise the result is the right operand's,
\* evaluated after the left.
C4_ShortCircuit ==
  (Evaluated("Logical") /\ probe.expr.op.kind \in LogicalOps) =>
    LET left == eval_expr(probe.expr.left, probe.env)
        decided == IF probe.expr.op.kind = "Or" THEN Truthy(left.val)
                   ELSE ~Truthy(left.val)
    IN IF left.st # "ok" THEN probe.res = left
       ELSE IF decided
       THEN /\ probe.res.st = "ok"
            /\ probe.res.val = left.val
            /\ probe.res.env = left.env
       ELSE probe.res = eval_expr(probe.expr.right, left.env)

\* `nil and -"a"`: the result is nil, and the right operand's error is
\* not raised.
C4_Witness ==
  /\ Evaluated("Logical")
  /\ probe.expr = Logical(Literal(LitNil), Op("And", 3), Unary(Op("Minus", 2), Str("a")))
  /\ eval_expr(probe.expr.right, probe.env).st = "err"
  /\ probe.res.st = "ok"
  /\ probe.res.val = Nil

(***************************************************************************)
(* C5.  Assignment never creates a binding.                                *)
(***************************************************************************)
\* The claim as it stands: an assignment to a name no frame binds yields
\* the "undefined variable" error with the target token, whatever its
\* right-hand side, and the name stays unbound.
C5_AsClaimed ==
  (Evaluated("Assign") /\ Lookup(probe.env, probe.expr.token.name) = Unbound) =>
    /\ probe.res.st = "err"
    /\ probe.res.msg = "undefined variable"
    /\ probe.res.tok = probe.expr.token
    /\ Lookup(probe.res.env, probe.expr.token.name) = Unbound

\* C5 (amended): an assignment to a name no frame binds, whose right-hand
\* side evaluates to a value, yields the "undefined variable" error with
\* the target token; when the right-hand side fails, the assignment yields
\* that failure; either way the name is unbound afterwards and a later read
\* of it fails.
C5_NeverCreates ==
  (Evaluated("Assign") /\ Lookup(probe.env, probe.expr.token.name) = Unbound) =>
    LET value == eval_expr(probe.expr.expr, probe.env)
    IN /\ value.st = "ok" =>
            /\ probe.res.st = "err"
            /\ probe.res.msg = "undefined variable"
            /\ probe.res.tok = probe.expr.token
       /\ value.st # "ok" => probe.res = value
       /\ Lookup(probe.res.env, probe.expr.token.name) = Unbound
       /\ ReadIn(probe.res.env, probe.expr.token.name).st = "err"

\* `y = 1` with only x bound: the error names the target, y is unbound.
C5_Witness ==
  /\ Evaluated("Assign")
  /\ probe.expr = Assign(Id("y", 3), Num(1))
  /\ probe.env = <<"x" :> Fin(1)>>
  /\ probe.res.st = "err" /\ probe.res.tok = Id("y", 3)
  /\ probe.res.env = probe.env

(***************************************************************************)
(* C7.  Assignment is a value-producing expression.                        *)
(***************************************************************************)
\* C7: an assignment to a bound name whose right-hand side evaluates to v
\* yields exactly v, and a read of the name then finds v; in a chain
\* `a = b = e` both names are then bound to v.
C7_AssignYields ==
  (Evaluated("Assign") /\ Lookup(probe.env, probe.expr.token.name) # Unbound) =>
    LET value == eval_expr(probe.expr.expr, probe.env)
    IN value.st = "ok" =>
         /\ probe.res.st = "ok"
         /\ probe.res.val = value.val
         /\ ReadIn(probe.res.env, probe.expr.token.name).st = "ok"
         /\ ReadIn(probe.res.env, probe.expr.token.name).val = value.val
         /\ probe.expr.expr.e = "Assign" =>
              ReadIn(probe.res.env, probe.expr.expr.token.name).val = value.val

\* `y = x = 2` with x and y bound: the value is 2 and both read 2.
C7_Witness ==
  /\ Evaluated("Assign")
  /\ probe.expr = Assign(Id("y", 3), Assign(Id("x", 2), Num(2)))
  /\ probe.env = <<("x" :> Fin(1)) @@ ("y" :> Fin(2))>>
  /\ probe.res.val = Fin(2)
  /\ probe.res.env = <<("x" :> Fin(2)) @@ ("y" :> Fin(2))>>

(***************************************************************************)
(* C6.  Reads resolve innermost-first; block-local names die with the      *)
(* block.                                                                  *)
(***************************************************************************)
\* `print x;` writes what the innermost binding of x holds, or fails with
\* "undefined variable" and x's own token, writing nothing.
C6_PrintReads ==
  (Calling("Print") /\ Top.s.expr.e = "Variable") =>
    IF Lookup(env, Top.s.expr.token.name) = Unbound
    THEN /\ ret'.st = "err"
         /\ ret'.tok = Top.s.expr.token
         /\ ret'.msg = "undefined variable"
         /\ out' = out
    ELSE /\ ret'.st = "ok"
         /\ out' = Append(out, Display(Lookup(env, Top.s.expr.token.name)))

\* `var y = x;` binds y to what the innermost binding of x holds, or fails
\* likewise.
C6_InitReads ==
  (Calling("Var") /\ Top.s.init.e = "Variable") =>
    IF Lookup(env, Top.s.init.token.name) = Unbound
    THEN /\ ret'.st = "err"
         /\ ret'.tok = Top.s.init.token
         /\ ret'.msg = "undefined variable"
    ELSE /\ ret'.st = "ok"
         /\ Lookup(env', Top.s.name) = Lookup(env, Top.s.init.token.name)

\* A name unbound when a block was entered is unbound when it returns Ok.
C6_LocalsDie ==
  (ReturnsOk /\ Top.k = "block") =>
    \A name \in Names :
      Lookup(Top.saved, name) = Unbound => Lookup(env', name) = Unbound

\* C6: a read of x yields the value of the innermost frame that binds x,
\* or the "undefined variable" error with the reading token when none
\* does; a name declared only inside a block is unbound again once the
\* block has returned Ok.
C6_Reads == [][C6_PrintReads /\ C6_InitReads /\ C6_LocalsDie]_vars

\* `{ { var y = 1; x = x + 1; } print y; }`: after the inner block, the
\* read of y fails with its token.
C6_Witness ==
  /\ Running /\ ret.st = "err"
  /\ ret.tok = Id("y", 6) /\ ret.msg = "undefined variable"
  /\ Top.k = "block"
  /\ Top.s = Block(<<Block(<<Var("y", Num(1)), IncrX>>), PrintStmt(Variable(Id("y", 6)))>>)
  /\ Lookup(env, "y") = Unbound

(***************************************************************************)
(* Properties of the operators (SpecValue).                                *)
(***************************************************************************)
\* The binary (unary) match has been applied.
Applied(kind) == probe.kind = kind /\ probe.res # Pending

Finite(v) == v.t = "Number" /\ v.c = "fin"

(***************************************************************************)
(* C8.  Binary `+`.                                                        *)
(***************************************************************************)
\* C8: `+` on two Numbers is their sum, a Number; on two Strings the
\* left followed by the right, a String; on any other pair of variants
\* the error "+ needs either strings or numbers" with the operator token.
C8_Plus ==
  (Applied("binary") /\ probe.op.kind = "Plus") =>
    CASE probe.left.t = "Number" /\ probe.right.t = "Number" ->
           /\ probe.res.st = "ok"
           /\ probe.res.val.t = "Number"
           /\ (Finite(probe.left) /\ Finite(probe.right)) =>
                /\ Finite(probe.res.val)
                /\ IntOf(probe.res.val) = IntOf(probe.left) + IntOf(probe.right)
      [] probe.left.t = "String" /\ probe.right.t = "String" ->
           /\ probe.res.st = "ok"
           /\ probe.res.val.t = "String"
           /\ probe.res.val.s = probe.left.s \o probe.right.s
      [] OTHER ->
           /\ probe.res.st = "err"
           /\ probe.res.tok = probe.op
           /\ probe.res.msg = "+ needs either strings or numbers"

\* "a" + "b" has been evaluated to "ab".
C8_Witness ==
  /\ Applied("binary") /\ probe.op.kind = "Plus"
  /\ probe.left = String("a") /\ probe.right = String("b")
  /\ probe.res.val = String("ab")

(***************************************************************************)
(* C9.  Number-only operators.                                             *)
(***************************************************************************)
NumberOnlyOps ==
  {"Minus", "Slash", "Star", "Greater", "GreaterEqual", "Less", "LessEqual"}

\* C9: each of binary - * / > >= < <= yields a Runtime error, with the
\* operator token, exactly when one of its operand values is not a
\* Number, and unary - exactly when its operand is not; none of them
\* panics.
C9_NumberOnly ==
  /\ (Applied("binary") /\ probe.op.kind \in NumberOnlyOps) =>
       /\ probe.res.st \in {"ok", "err"}
       /\ (probe.res.st = "err") = (probe.left.t # "Number" \/ probe.right.t # "Number")
       /\ probe.res.st = "err" => probe.res.tok = probe.op
  /\ (Applied("unary") /\ probe.op.kind = "Minus") =>
       /\ probe.res.st \in {"ok", "err"}
       /\ (probe.res.st = "err") = (probe.right.t # "Number")
       /\ probe.res.st = "err" => probe.res.tok = probe.op

\* "a" < "b", two operands of one variant that is not Number: an error.
C9_Witness ==
  /\ Applied("binary") /\ probe.op.kind = "Less"
  /\ probe.left = String("a") /\ probe.right = String("b")
  /\ probe.res.st = "err" /\ probe.res.tok = probe.op

(***************************************************************************)
(* C10.  The equality rule.                                                *)
(***************************************************************************)
\* The same f64 value: neither is NaN, and they are the same number (the
\* two zeros are).
SameF64(a, b) ==
  /\ a.c # "nan" /\ b.c # "nan"
  /\ a.c = b.c
  /\ \/ a.c = "inf" /\ a.neg = b.neg
     \/ a.c = "fin" /\ a.m = b.m /\ (a.neg = b.neg \/ a.m = 0)

\* C10: == and != never fail; != is the negation of ==; values of
\* different variants are unequal; Numbers, Strings and Booleans compare
\* by value; Nil equals Nil; a Callable equals nothing, itself included;
\* and == is symmetric.
C10_Equality ==
  (Applied("binary") /\ probe.op.kind \in {"EqualEqual", "BangEqual"}) =>
    LET same == IF probe.op.kind = "EqualEqual" THEN probe.res.val.b
                ELSE ~probe.res.val.b
        other == ApplyBinary(Op(IF probe.op.kind = "EqualEqual" THEN "BangEqual"
                                ELSE "EqualEqual", 1),
                             probe.left, probe.right)
        flipped == ApplyBinary(probe.op, probe.right, probe.left)
    IN /\ probe.res.st = "ok" /\ probe.res.val.t = "Boolean"
       /\ other.st = "ok" /\ other.val.b = ~probe.res.val.b
       /\ flipped.st = "ok" /\ flipped.val.b = probe.res.val.b
       /\ probe.left.t # probe.right.t => ~same
       /\ (probe.left.t = "Number" /\ probe.right.t = "Number") =>
            same = SameF64(probe.left, probe.right)
       /\ (probe.left.t = "String" /\ probe.right.t = "String") =>
            same = (probe.left.s = probe.right.s)
       /\ (probe.left.t = "Boolean" /\ probe.right.t = "Boolean") =>
            same = (probe.left.b = probe.right.b)
       /\ (probe.left.t = "Nil" /\ probe.right.t = "Nil") => same
       /\ (probe.left.t = "Function" \/ probe.right.t = "Function") => ~same

\* A Callable compared with itself by ==: false.
C10_Witness ==
  /\ Applied("binary") /\ probe.op.kind = "EqualEqual"
  /\ probe.left = Function("clock", 0) /\ probe.right = Function("clock", 0)
  /\ probe.res.val = Boolean(FALSE)

(***************************************************************************)
(* C11.  Truthiness.                                                       *)
(***************************************************************************)
\* is_truthy is false on Nil and Boolean(false) and on nothing else, and
\* `!` yields Boolean(not truthy), never an error.
C11_Value ==
  /\ probe.kind \in {"unary", "binary"} =>
       is_truthy(probe.right) = Truthy(probe.right)
  /\ (Applied("unary") /\ probe.op.kind = "Bang") =>
       probe.res = Ok(Boolean(~Truthy(probe.right)), <<>>)

\* The statement a step has just called execute on.
Called(st) == Len(stack') = Len(stack) + 1 /\ stack'[Len(stack')].s = st

\* An If whose condition has a value executes then_branch when the value
\* is truthy, else_branch when not.
C11_If ==
  (Calling("If") /\ eval_expr(Top.s.cond, env).st = "ok") =>
    Called(IF Truthy(eval_expr(Top.s.cond, env).val) THEN Top.s.then_branch
           ELSE Top.s.else_branch)

\* A While whose condition has a value executes the body when the value
\* is truthy and returns Ok(()) when not.
C11_While ==
  (/\ Running /\ ret.st = "ok"
   /\ Top.k = "while" \/ (Top.k = "exec" /\ Top.s.s = "While")
   /\ eval_expr(Top.s.cond, env).st = "ok") =>
    IF Truthy(eval_expr(Top.s.cond, env).val)
    THEN Called(Top.s.body)
    ELSE stack' = Pop /\ ret' = OkUnit

\* print of `!e`, `l or r`, `l and r`: what is written follows the rule.
C11_Print ==
  /\ (Calling("Print") /\ Top.s.expr.e = "Unary" /\ Top.s.expr.op.kind = "Bang"
        /\ eval_expr(Top.s.expr.right, env).st = "ok") =>
       out' = Append(out, IF Truthy(eval_expr(Top.s.expr.right, env).val)
                          THEN "false" ELSE "true")
  /\ (Calling("Print") /\ Top.s.expr.e = "Logical" /\ Top.s.expr.op.kind \in LogicalOps
        /\ eval_expr(Top.s.expr.left, env).st = "ok") =>
       LET left == eval_expr(Top.s.expr.left, env)
           right == eval_expr(Top.s.expr.right, left.env)
       IN IF Truthy(left.val) = (Top.s.expr.op.kind = "Or")
          THEN out' = Append(out, Display(left.val))
          ELSE right.st = "ok" => out' = Append(out, Display(right.val))

\* C11: is_truthy(v) is false iff v is Nil or Boolean(false); `!v` never
\* fails and is Boolean(not is_truthy(v)); the same rule picks the branch
\* of an If, continues or ends a While, and short-circuits `and`/`or`.
C11_Truthiness == []C11_Value /\ [][C11_If /\ C11_While /\ C11_Print]_vars

\* `while (x) { print "a"; x = nil; }` entered with x the empty string:
\* the body ran once, and the condition, now nil, ended the loop.
C11_Witness ==
  /\ Running /\ Top.k = "interpret" /\ ret = OkUnit
  /\ Lookup(Top.saved, "x") = String("")
  /\ Lookup(env, "x") = Nil
  /\ out = <<"a">>

(***************************************************************************)
(* C12.  The While loop.                                                   *)
(***************************************************************************)
\* The call on top is a While about to evaluate its condition: on entry,
\* or after its body has returned Ok.
AtCondition ==
  /\ Running /\ ret.st = "ok"
  /\ Top.k = "while" \/ (Top.k = "exec" /\ Top.s.s = "While")

\* Each time, the condition is evaluated in the environment as it then
\* is; truthy, the body is executed (once, and control comes back to the
\* condition); falsy, the loop returns Ok(()) with nothing written.
C12_Step ==
  AtCondition =>
    LET c == eval_expr(Top.s.cond, env)
    IN /\ env' = c.env
       /\ out' = out
       /\ (c.st = "ok" /\ Truthy(c.val)) =>
            /\ Called(Top.s.body)
            /\ stack'[Len(stack)].k = "while"
       /\ (c.st = "ok" /\ ~Truthy(c.val)) => (stack' = Pop /\ ret' = OkUnit)
       /\ c.st = "err" => (stack' = Pop /\ ret'.st = "err")

\* The body is called from nowhere but the condition.
C12_BodyOnlyIfTruthy ==
  (Running /\ Len(stack') = Len(stack) + 1 /\ Top.k \in {"while", "exec"}
     /\ Top.s.s = "While") =>
    (AtCondition /\ Truthy(eval_expr(Top.s.cond, env).val))

\* LoopThenPrint is about to be executed with x a finite number.
Entered ==
  /\ Running /\ Top.k = "exec" /\ Top.s = LoopThenPrint
  /\ Finite(Lookup(env, "x"))

\* The loop is over with x < 2 false, and the next statement has printed
\* x: 2 when the loop was entered with less, else what it was entered with.
Left ==
  /\ Running /\ Top.k = "block" /\ Top.s = LoopThenPrint /\ Top.rest = <<>>
  /\ ret = OkUnit
  /\ ~Truthy(eval_expr(XBelow2, env).val)
  /\ out = <<Display(IF F64Lt(Lookup(Top.saved, "x"), Fin(2)) THEN Fin(2)
                     ELSE Lookup(Top.saved, "x"))>>

\* C12: the condition is evaluated afresh before each iteration; the body
\* runs once per truthy evaluation; the first falsy evaluation ends the
\* loop with Ok(()), after zero iterations when it is the first; and
\* `while (x < 2) x = x + 1;` from a finite x ends with x < 2 false and
\* execution going on to the next statement.
C12_While ==
  /\ [][C12_Step /\ C12_BodyOnlyIfTruthy]_vars
  /\ Entered ~> Left

\* From x = 0 the loop has run twice and the print has written 2.
C12_Witness ==
  /\ Left
  /\ Lookup(Top.saved, "x") = Fin(0)
  /\ Lookup(env, "x") = Fin(2)

(***************************************************************************)
(* C13.  The output trace.                                                 *)
(***************************************************************************)
\* The text of a value, as the specification's Display rule words it.
Text(v) ==
  CASE v.t = "Nil" -> "nil"
    [] v.t = "Boolean" -> IF v.b THEN "true" ELSE "false"
    [] v.t = "String" -> v.s
    [] v.t = "Number" /\ v.c = "fin" -> (IF v.neg THEN "-" ELSE "") \o ToString(v.m)
    [] OTHER -> Display(v)

\* A step of a Print whose expression has a value adds that value's text
\* as the last line; a Print whose expression fails, and a step of any
\* other kind, leaves the output as it is (a new call of interpret starts
\* its own output).
C13_Step ==
  IF Calling("Print")
  THEN LET r == eval_expr(Top.s.expr, env)
       IN IF r.st = "ok" THEN out' = Append(out, Text(r.val)) ELSE out' = out
  ELSE out' = out \/ (~Running /\ out' = <<>>)

\* C13: the output is one line per executed Print, in execution order,
\* each the Display form of the value the expression had then; a failing
\* Print writes nothing, and no statement of another kind writes.
C13_OutputTrace == [][C13_Step]_vars

\* `var x = 1; print x; print y;`: one line, then the failing print.
C13_Witness ==
  /\ ~Running /\ handed = 3 /\ calls = 1
  /\ result.st = "err" /\ result.tok = Id("y", 6)
  /\ out = <<"1">>
  /\ env = <<"x" :> Fin(1)>>

(***************************************************************************)
(* C14.  A malformed operator is fatal.                                    *)
(***************************************************************************)
\* A Unary or Binary node with an operator its match does not list, and
\* operands that evaluate to values, panics.
C14_UnaryBinary ==
  /\ (Evaluated("Unary") /\ probe.expr.op.kind \notin UnaryOps
        /\ eval_expr(probe.expr.right, probe.env).st = "ok") =>
       probe.res.st = "panic"
  /\ (Evaluated("Binary") /\ probe.expr.op.kind \notin BinaryOps
        /\ eval_expr(probe.expr.left, probe.env).st = "ok"
        /\ eval_expr(probe.expr.right,
                     eval_expr(probe.expr.left, probe.env).env).st = "ok") =>
       probe.res.st = "panic"

\* A Logical node with an operator that is neither `and` nor `or`, and a
\* left operand that evaluates to a value, panics.
C14_Logical ==
  (Evaluated("Logical") /\ probe.expr.op.kind \notin LogicalOps
     /\ eval_expr(probe.expr.left, probe.env).st = "ok") =>
    probe.res.st = "panic"

\* C14: a Unary, Binary or Logical node whose operator is none its
\* position allows aborts the evaluation with a panic (here: once its
\* operands have been evaluated to values); it yields neither a value nor
\* a Runtime error.
C14_MalformedIsFatal == C14_UnaryBinary /\ C14_Logical

(***************************************************************************)
(* C15.  A failing block leaves its frame pushed.                          *)
(***************************************************************************)
\* When a statement fails, the scope stack is as deep as it was when
\* interpret was called plus one frame for each block the statement is in.
C15_Fails ==
  (Running /\ ret.st = "ok" /\ ret'.st = "err") =>
    Len(env') = stack[1].d + Cardinality(BlockFrames)

\* From then on the error goes up unchanged and the environment stays as
\* it is: a block handed the error returns at once, without pop_scope and
\* without executing another child.
C15_Travels ==
  (Running /\ ret.st = "err") =>
    /\ env' = env
    /\ ret' = ret
    /\ stack' = Pop
    /\ ~Running' => result' = ret

\* C15: when a child of a Block fails the block stops there, passes the
\* error on unchanged and does not pop its frame: a call that fails inside
\* N nested blocks ends with the scope stack N deeper than it began, the
\* leaked frames holding what was defined in them.
C15_LeakedFrames == [][C15_Fails /\ C15_Travels]_vars

\* `{ var x = 2; { -y; } print x; }` with y unbound: two frames are left
\* above the base frame, the first with x = 2.
C15_Witness ==
  /\ ~Running /\ calls = 1 /\ handed = 1
  /\ result.st = "err" /\ result.tok = Id("y", 4)
  /\ env = <<EmptyFrame, "x" :> Fin(2), EmptyFrame>>

(***************************************************************************)
(* C16.  Assignment updates the nearest binding in place.                  *)
(***************************************************************************)
\* e2 is e with the binding of name in frame i set to v, and nothing else
\* different.
OnlyChanged(e, e2, i, name, v) ==
  /\ Len(e2) = Len(e)
  /\ \A j \in 1..Len(e) :
       /\ DOMAIN e2[j] = DOMAIN e[j]
       /\ \A n \in DOMAIN e[j] :
            e2[j][n] = IF j = i /\ n = name THEN v ELSE e[j][n]

\* The statement `name = rhs;`, when rhs has a value and some frame binds
\* name, overwrites the binding of the last frame that binds it.
C16_InPlace ==
  (Calling("Expression") /\ Top.s.expr.e = "Assign") =>
    LET value == eval_expr(Top.s.expr.expr, env)
        name == Top.s.expr.token.name
    IN (value.st = "ok" /\ Lookup(value.env, name) # Unbound) =>
         /\ ret' = OkUnit
         /\ \E i \in 1..Len(value.env) :
              /\ name \in DOMAIN value.env[i]
              /\ \A j \in (i + 1)..Len(value.env) : name \notin DOMAIN value.env[j]
              /\ OnlyChanged(value.env, env', i, name, value.val)

\* What a name the block's own frame does not bind holds when the block
\* returns Ok, it still holds after the return.
C16_SurvivesExit ==
  (ReturnsOk /\ Top.k = "block") =>
    \A name \in Names :
      name \notin DOMAIN env[Len(env)] => Lookup(env', name) = Lookup(env, name)

\* C16: an assignment to x overwrites x in the innermost frame that binds
\* it and changes no other frame, no other name and not the depth; so an
\* assignment made in a block to a variable of an enclosing scope is
\* still there after the block, and one to a name the block shadows
\* leaves the outer binding as it was.
C16_AssignInPlace == [][C16_InPlace /\ C16_SurvivesExit]_vars

\* `var x = 1; { var x = 2; { x = x + 1; } print x; }`: the inner block's
\* assignment is seen after it (3 is printed), the outer x is still 1.
C16_Witness ==
  /\ Running /\ Top.k = "block" /\ Top.rest = <<>> /\ ret = OkUnit
  /\ Top.s = Block(<<Var("x", Num(2)), Block(<<IncrX>>), PrintStmt(Variable(Id("x", 6)))>>)
  /\ Top.saved = <<"x" :> Fin(1)>>
  /\ out = <<"3">>
  /\ env = <<"x" :> Fin(1), "x" :> Fin(3)>>

(***************************************************************************)
(* C17.  Variable declaration.                                             *)
(***************************************************************************)
\* e2 is e with name bound to v in its last frame, and nothing else
\* different.
DefinedIn(e, e2, name, v) ==
  /\ Len(e2) = Len(e)
  /\ \A j \in 1..(Len(e) - 1) : e2[j] = e[j]
  /\ DOMAIN e2[Len(e)] = DOMAIN e[Len(e)] \cup {name}
  /\ \A n \in DOMAIN e2[Len(e)] :
       e2[Len(e)][n] = IF n = name THEN v ELSE e[Len(e)][n]

\* `var name = init;`: init is evaluated in the environment as it is
\* before the declaration; its value is bound in the last frame, over any
\* binding of the name there; its failure is the statement's, with no
\* name added.
C17_Step ==
  Calling("Var") =>
    LET value == eval_expr(Top.s.init, env)
    IN /\ value.st = "ok" =>
            /\ ret' = OkUnit
            /\ DefinedIn(value.env, env', Top.s.name, value.val)
       /\ value.st = "err" =>
            /\ ret'.st = "err" /\ ret'.tok = value.tok /\ ret'.msg = value.msg
            /\ env' = value.env
            /\ Len(env') = Len(env)
            /\ DOMAIN env'[Len(env')] = DOMAIN env[Len(env)]

\* `var x = x;` in a frame that does not bind x: the new x is what the
\* enclosing scopes held for x, or the declaration fails with "undefined
\* variable" when they hold nothing.
C17_ReadsOuter ==
  (Calling("Var") /\ Top.s.init = Variable(Id(Top.s.name, 1))
     /\ Top.s.name \notin DOMAIN env[Len(env)]) =>
    IF Lookup(env, Top.s.name) = Unbound
    THEN ret'.st = "err" /\ ret'.msg = "undefined variable" /\ env' = env
    ELSE /\ env'[Len(env)][Top.s.name] = Lookup(env, Top.s.name)
         /\ SubSeq(env', 1, Len(env) - 1) = SubSeq(env, 1, Len(env) - 1)

\* C17: a declaration evaluates its initializer before it defines the
\* name, and defines in the innermost frame only: in a block,
\* `var x = <expr with x>` reads the outer x, or fails when there is
\* none, and then makes an inner binding; declaring a name the frame
\* already binds overwrites it; a failing initializer defines nothing.
C17_VarDeclaration == [][C17_Step /\ C17_ReadsOuter]_vars

\* `{ var x = x; print x; }` with the outer x = "a": after the
\* declaration the block's frame binds x to "a" too.
C17_Witness ==
  /\ Running /\ Top.k = "block" /\ Top.s = ShadowFromOuter /\ Len(Top.rest) = 1
  /\ ret = OkUnit
  /\ env = <<("x" :> String("a")) @@ ("y" :> Fin(2)), "x" :> String("a")>>

(***************************************************************************)
(* C18.  Division by zero.                                                 *)
(***************************************************************************)
\* IEEE 754: x / 0 is NaN for x zero or NaN, else an infinity with the
\* sign of x times the sign of the zero.
QuotientByZero(a, b) ==
  IF a.c = "nan" \/ (a.c = "fin" /\ a.m = 0) THEN Number("nan", FALSE, 0)
  ELSE Number("inf", a.neg # b.neg, 0)

Zero(v) == v.t = "Number" /\ v.c = "fin" /\ v.m = 0

\* On two Numbers - * / yield a Number, never an error or a panic (for
\* every pair, those whose result the model does not represent included),
\* and x / 0 is the IEEE quotient.
C18_Value ==
  (probe.kind = "binary" /\ probe.op.kind \in {"Slash", "Minus", "Star"}
     /\ probe.left.t = "Number" /\ probe.right.t = "Number") =>
    /\ ApplyBinary(probe.op, probe.left, probe.right).st \in {"ok", "out"}
    /\ probe.res # Pending =>
         /\ probe.res.st = "ok"
         /\ probe.res.val.t = "Number"
         /\ (probe.op.kind = "Slash" /\ Zero(probe.right)) =>
              probe.res.val = QuotientByZero(probe.left, probe.right)

\* { var x = x / y; print x; }
DivideThenPrint ==
  Block(<<Var("x", Binary(VarX, Op("Slash", 3), VarY)), PrintStmt(VarX)>>)

\* The declaration `var x = x / y;` with x a Number and y a zero returns
\* Ok(()).
C18_NoError ==
  (Calling("Var") /\ Top.s = DivideThenPrint.stmts[1]
     /\ Lookup(env, "x").t = "Number" /\ Zero(Lookup(env, "y"))) =>
    ret' = OkUnit

\* When DivideThenPrint has run with y a zero, the statement after the
\* division has written the quotient.
C18_Continued ==
  (Running /\ Top.k = "block" /\ Top.s = DivideThenPrint /\ Top.rest = <<>>
     /\ ret = OkUnit /\ Zero(Lookup(Top.saved, "y"))) =>
    out = <<Text(QuotientByZero(Lookup(Top.saved, "x"), Lookup(Top.saved, "y")))>>

\* C18: on two Numbers `/`, like `-` and `*`, returns a Number and never
\* a Runtime error, a zero divisor included (the quotient is an infinity
\* or NaN), and the statements that follow are executed.
C18_DivisionByZero == [](C18_Value /\ C18_Continued) /\ [][C18_NoError]_vars

\* `{ var x = x / y; print x; }` with x = 1 and y = 0 has printed inf.
C18_Witness ==
  /\ Running /\ Top.k = "block" /\ Top.s = DivideThenPrint /\ Top.rest = <<>>
  /\ ret = OkUnit
  /\ Top.saved = <<("x" :> Fin(1)) @@ ("y" :> Fin(0))>>
  /\ out = <<"inf">>
  /\ Lookup(env, "x") = Inf

(***************************************************************************)
(* C19.  Binary operators evaluate left, then right, then check.           *)
(***************************************************************************)
\* The left value alone rules the operation out: not a Number under a
\* number-only operator, neither Number nor String under `+`.
LeftRulesOut(op, v) ==
  \/ op.kind \in NumberOnlyOps /\ v.t # "Number"
  \/ op.kind = "Plus" /\ v.t \notin {"Number", "String"}

\* C19: a Binary node evaluates its left operand, then its right operand
\* in the environment the left one left, and only then looks at the
\* values: when the left operand fails the right is not evaluated; when
\* the left value already rules the operation out, the right operand's
\* assignments are made all the same and its failure, not the type
\* error, is the result; the type error comes after both.
C19_OperandOrder ==
  (Evaluated("Binary") /\ probe.expr.op.kind \in BinaryOps) =>
    LET left == eval_expr(probe.expr.left, probe.env)
        right == eval_expr(probe.expr.right, left.env)
    IN /\ left.st # "ok" => probe.res = left
       /\ (left.st = "ok" /\ right.st # "ok") => probe.res = right
       /\ (left.st = "ok" /\ right.st = "ok") =>
            /\ probe.res.env = right.env
            /\ probe.res.st = ApplyBinary(probe.expr.op, left.val, right.val).st
            /\ probe.res.val = ApplyBinary(probe.expr.op, left.val, right.val).val
       /\ (left.st = "ok" /\ right.st = "ok" /\ LeftRulesOut(probe.expr.op, left.val)) =>
            /\ probe.res.st = "err"
            /\ probe.res.tok = probe.expr.op

\* `"a" - (x = 2)` with x = 1: a type error, and x is 2.
C19_Witness ==
  /\ Evaluated("Binary")
  /\ probe.expr = Binary(Str("a"), Op("Minus", 3), Assign(Id("x", 2), Num(2)))
  /\ probe.env = <<"x" :> Fin(1)>>
  /\ probe.res.st = "err" /\ probe.res.tok = Op("Minus", 3)
  /\ probe.res.env = <<"x" :> Fin(2)>>

(***************************************************************************)
(* C20.  One environment per interpreter, across calls.                    *)
(***************************************************************************)
\* Before any call the environment is the one Interpreter::new made.
C20_CreatedOnce == calls = 0 => env = EnvNew

\* A call of interpret starts on the environment the earlier calls left
\* and, when it returns, leaves its own to the next; between calls
\* nothing touches it.
C20_Persists ==
  ~(Running /\ Running') => env' = env

\* Neither Interpreter's steps change the other's environment, and a name
\* only the other binds is unbound for the first.
C20_Isolated ==
  /\ env' # env => probe' = probe
  /\ probe' # probe => env' = env
  /\ (Calling("Print") /\ Top.s.expr.e = "Variable"
        /\ Lookup(env, Top.s.expr.token.name) = Unbound) =>
       (ret'.st = "err" /\ out' = out)

\* A later call reads what the earlier calls left: print of a variable
\* writes the value env holds, env being what the call was given but for
\* the call's own statements.
C20_LaterCallReads ==
  (Calling("Print") /\ Top.s.expr.e = "Variable" /\ calls > 1
     /\ Lookup(env, Top.s.expr.token.name) # Unbound) =>
    out' = Append(out, Text(Lookup(env, Top.s.expr.token.name)))

=============================================================================
